---------------------------- MODULE Spec2Model ----------------------------
(***************************************************************************)
(* A model of the cron_security tools: updater.py runs the package manager *)
(* steps and writes one log file per run, report.py collects a month of    *)
(* log files, parses them, renders the monthly report and sends it to      *)
(* Telegram.                                                               *)
(*                                                                         *)
(* Text is modelled as the program sees it: a Python str is a sequence of  *)
(* characters, each character a one-character string (the em dash of the   *)
(* step labels is written "U+2014").  The log file the updater writes and  *)
(* the regular expressions report.py runs over it work on these sequences. *)
(***************************************************************************)
EXTENDS Integers, Sequences, FiniteSets, TLC

VARIABLES
    os_release,  \* host: the text of /etc/os-release, <<>> when there is no such file
    apt_get_exists, \* host: /usr/bin/apt-get exists
    cfg,         \* the Config record load_config returns
    dry_run,     \* updater: --dry-run given
    os_family,   \* updater: what _detect_os returned, <<>> before the call
    pc,          \* updater: position in run_updates
    step,        \* updater: index of the next step of the for loop
    calls,       \* updater: the commands handed to _run, in call order
    children,    \* updater: the commands subprocess.run started a child for
    returncodes, \* updater: result.returncode of each child that exited
    stdouts,     \* updater: result.stdout of each child that exited
    rcs,         \* updater: the value _run returned for each step
    exit_code,   \* updater: run_updates' local exit_code
    fh,          \* updater: the text written to the log file so far
    status,      \* updater: run_updates' local status
    raised,      \* updater: the exception that left run_updates, or "none"
    proc_exit,   \* updater: the process exit status, <<>> while it runs
    clock,       \* updater: seconds shown by datetime.now()
    parsed,      \* report: what _parse_log returned, <<>> before the call
    content,     \* report: the log text handed to _parse_log
    log_dir,     \* report: the files of cfg.log_dir
    period,      \* report: the year and month asked for
    r_pc,        \* report: position in generate_monthly_report and main
    entries,     \* report: what collect_logs returned
    report_file, \* report: the document at output_path, <<>> when there is none
    events,      \* report: the pipeline stages entered, in order
    doc_reads,   \* report: how often send_to_telegram opened the document
    net_calls,   \* report: how often send_to_telegram called urlopen
    sent,        \* report: what send_to_telegram returned, <<>> before it returns
    r_raised,    \* report: the exception that left main, or "none"
    r_exit       \* report: the process exit status, <<>> while it runs

uvars == <<cfg, dry_run, os_family, pc, step, calls, children, returncodes,
           stdouts, rcs, exit_code, fh, status, raised, proc_exit, clock,
           parsed>>

\* The host the updater runs on.
host == <<os_release, apt_get_exists>>

\* What the updater's actions leave alone.
others == <<content, log_dir, period, r_pc, entries, report_file, events, doc_reads,
            net_calls, sent, r_raised, r_exit, host>>

vars == <<uvars, others>>

\* 'Security Update Log\n'
TitleLine ==
    <<"S", "e", "c", "u", "r", "i", "t", "y", " ", "U", "p", "d", "a", "t",
      "e", " ", "L", "o", "g", "\n">>

\* 'Server      : '
ServerKey ==
    <<"S", "e", "r", "v", "e", "r", " ", " ", " ", " ", " ", " ", ":", " ">>

\* 'Environment : '
EnvironmentKey ==
    <<"E", "n", "v", "i", "r", "o", "n", "m", "e", "n", "t", " ", ":", " ">>

\* 'OS Family   : '
OSFamilyKey ==
    <<"O", "S", " ", "F", "a", "m", "i", "l", "y", " ", " ", " ", ":", " ">>

\* 'Started     : '
StartedKey ==
    <<"S", "t", "a", "r", "t", "e", "d", " ", " ", " ", " ", " ", ":", " ">>

\* 'Status  : '
StatusKey ==
    <<"S", "t", "a", "t", "u", "s", " ", " ", ":", " ">>

\* 'Finished: '
FinishedKey ==
    <<"F", "i", "n", "i", "s", "h", "e", "d", ":", " ">>

\* '[DRY-RUN] command not executed\n\n'
DryRunLine ==
    <<"[", "D", "R", "Y", "-", "R", "U", "N", "]", " ", "c", "o", "m", "m",
      "a", "n", "d", " ", "n", "o", "t", " ", "e", "x", "e", "c", "u", "t",
      "e", "d", "\n", "\n">>

\* '[exit '
ExitOpen ==
    <<"[", "e", "x", "i", "t", " ">>

\* 'SUCCESS'
SUCCESS ==
    <<"S", "U", "C", "C", "E", "S", "S">>

\* 'COMPLETED WITH ERRORS'
COMPLETED_WITH_ERRORS ==
    <<"C", "O", "M", "P", "L", "E", "T", "E", "D", " ", "W", "I", "T", "H",
      " ", "E", "R", "R", "O", "R", "S">>

\* 'debian'
debian ==
    <<"d", "e", "b", "i", "a", "n">>

\* 'rhel'
rhel ==
    <<"r", "h", "e", "l">>

\* 'STEP 1 — Update package index (apt-get update)'
DebianLabel1 ==
    <<"S", "T", "E", "P", " ", "1", " ", "U+2014", " ", "U", "p", "d", "a",
      "t", "e", " ", "p", "a", "c", "k", "a", "g", "e", " ", "i", "n", "d",
      "e", "x", " ", "(", "a", "p", "t", "-", "g", "e", "t", " ", "u", "p",
      "d", "a", "t", "e", ")">>

\* 'STEP 2 — Apply security patches (unattended-upgrade -d)'
DebianLabel2 ==
    <<"S", "T", "E", "P", " ", "2", " ", "U+2014", " ", "A", "p", "p", "l",
      "y", " ", "s", "e", "c", "u", "r", "i", "t", "y", " ", "p", "a", "t",
      "c", "h", "e", "s", " ", "(", "u", "n", "a", "t", "t", "e", "n", "d",
      "e", "d", "-", "u", "p", "g", "r", "a", "d", "e", " ", "-", "d", ")">>

\* 'STEP 1 — Check for security updates (yum check-update --security)'
RhelLabel1 ==
    <<"S", "T", "E", "P", " ", "1", " ", "U+2014", " ", "C", "h", "e", "c",
      "k", " ", "f", "o", "r", " ", "s", "e", "c", "u", "r", "i", "t", "y",
      " ", "u", "p", "d", "a", "t", "e", "s", " ", "(", "y", "u", "m", " ",
      "c", "h", "e", "c", "k", "-", "u", "p", "d", "a", "t", "e", " ", "-",
      "-", "s", "e", "c", "u", "r", "i", "t", "y", ")">>

\* 'STEP 2 — Apply security patches (yum update --security -y)'
RhelLabel2 ==
    <<"S", "T", "E", "P", " ", "2", " ", "U+2014", " ", "A", "p", "p", "l",
      "y", " ", "s", "e", "c", "u", "r", "i", "t", "y", " ", "p", "a", "t",
      "c", "h", "e", "s", " ", "(", "y", "u", "m", " ", "u", "p", "d", "a",
      "t", "e", " ", "-", "-", "s", "e", "c", "u", "r", "i", "t", "y", " ",
      "-", "y", ")">>

\* 'apt-get'
apt_get ==
    <<"a", "p", "t", "-", "g", "e", "t">>

\* 'update'
update ==
    <<"u", "p", "d", "a", "t", "e">>

\* 'unattended-upgrade'
unattended_upgrade ==
    <<"u", "n", "a", "t", "t", "e", "n", "d", "e", "d", "-", "u", "p", "g",
      "r", "a", "d", "e">>

\* '-d'
dash_d ==
    <<"-", "d">>

\* 'yum'
yum ==
    <<"y", "u", "m">>

\* 'check-update'
check_update ==
    <<"c", "h", "e", "c", "k", "-", "u", "p", "d", "a", "t", "e">>

\* '--security'
dash_security ==
    <<"-", "-", "s", "e", "c", "u", "r", "i", "t", "y">>

\* '-y'
dash_y ==
    <<"-", "y">>

\* '2026-02-01 '
DatePrefix ==
    <<"2", "0", "2", "6", "-", "0", "2", "-", "0", "1", " ">>

\* 'Started'
StartedLabel ==
    <<"S", "t", "a", "r", "t", "e", "d">>

\* 'Finished'
FinishedLabel ==
    <<"F", "i", "n", "i", "s", "h", "e", "d">>

\* 'Status'
StatusLabel ==
    <<"S", "t", "a", "t", "u", "s">>

\* 'N/A'
NA ==
    <<"N", "/", "A">>

\* 'Unknown'
Unknown ==
    <<"U", "n", "k", "n", "o", "w", "n">>

\* 'error'
w_error ==
    <<"e", "r", "r", "o", "r">>

\* 'failed'
w_failed ==
    <<"f", "a", "i", "l", "e", "d">>

\* 'fail'
w_fail ==
    <<"f", "a", "i", "l">>

\* 'Get:'
GetPrefix ==
    <<"G", "e", "t", ":">>

\* 'EC2-Server'
DefaultServer ==
    <<"E", "C", "2", "-", "S", "e", "r", "v", "e", "r">>

\* 'fail-safe-01'
FailSafeServer ==
    <<"f", "a", "i", "l", "-", "s", "a", "f", "e", "-", "0", "1">>

\* 'production'
Production ==
    <<"p", "r", "o", "d", "u", "c", "t", "i", "o", "n">>

\* 'staging'
Staging ==
    <<"s", "t", "a", "g", "i", "n", "g">>

\* 'Reading package lists...\n'
OutQuiet ==
    <<"R", "e", "a", "d", "i", "n", "g", " ", "p", "a", "c", "k", "a", "g",
      "e", " ", "l", "i", "s", "t", "s", ".", ".", ".", "\n">>

\* 'W: Failed to fetch repo\n'
OutFetchWarning ==
    <<"W", ":", " ", "F", "a", "i", "l", "e", "d", " ", "t", "o", " ", "f",
      "e", "t", "c", "h", " ", "r", "e", "p", "o", "\n">>

\* 'Status: half-installed\n'
OutDpkgStatus ==
    <<"S", "t", "a", "t", "u", "s", ":", " ", "h", "a", "l", "f", "-", "i",
      "n", "s", "t", "a", "l", "l", "e", "d", "\n">>

\* 'E: failed A\n'
LineFailed ==
    <<"E", ":", " ", "f", "a", "i", "l", "e", "d", " ", "A", "\n">>

\* '  Error B  \n'
LineError ==
    <<" ", " ", "E", "r", "r", "o", "r", " ", "B", " ", " ", "\n">>

\* 'Get:3 failed\n'
LineGet ==
    <<"G", "e", "t", ":", "3", " ", "f", "a", "i", "l", "e", "d", "\n">>

\* '  Get:4 FAIL\n'
LineGetIndented ==
    <<" ", " ", "G", "e", "t", ":", "4", " ", "F", "A", "I", "L", "\n">>

\* '0 failures\n'
LineFailures ==
    <<"0", " ", "f", "a", "i", "l", "u", "r", "e", "s", "\n">>

\* 'fail\n'
LineFail ==
    <<"f", "a", "i", "l", "\n">>

\* 'security-update_'
LogPrefix ==
    <<"s", "e", "c", "u", "r", "i", "t", "y", "-", "u", "p", "d", "a", "t",
      "e", "_">>

\* '.log'
LogSuffix ==
    <<".", "l", "o", "g">>

\* 'security-update_20260201_030000.log'
LogFeb01 ==
    <<"s", "e", "c", "u", "r", "i", "t", "y", "-", "u", "p", "d", "a", "t",
      "e", "_", "2", "0", "2", "6", "0", "2", "0", "1", "_", "0", "3", "0",
      "0", "0", "0", ".", "l", "o", "g">>

\* 'security-update_20260215_030000.log'
LogFeb15 ==
    <<"s", "e", "c", "u", "r", "i", "t", "y", "-", "u", "p", "d", "a", "t",
      "e", "_", "2", "0", "2", "6", "0", "2", "1", "5", "_", "0", "3", "0",
      "0", "0", "0", ".", "l", "o", "g">>

\* 'security-update_20260301_030000.log'
LogMar01 ==
    <<"s", "e", "c", "u", "r", "i", "t", "y", "-", "u", "p", "d", "a", "t",
      "e", "_", "2", "0", "2", "6", "0", "3", "0", "1", "_", "0", "3", "0",
      "0", "0", "0", ".", "l", "o", "g">>

\* 'security-update_202602.log'
LogFebBare ==
    <<"s", "e", "c", "u", "r", "i", "t", "y", "-", "u", "p", "d", "a", "t",
      "e", "_", "2", "0", "2", "6", "0", "2", ".", "l", "o", "g">>

\* 'security-update_20260215_030000.log.1'
LogFebRotated ==
    <<"s", "e", "c", "u", "r", "i", "t", "y", "-", "u", "p", "d", "a", "t",
      "e", "_", "2", "0", "2", "6", "0", "2", "1", "5", "_", "0", "3", "0",
      "0", "0", "0", ".", "l", "o", "g", ".", "1">>

\* '[ERROR reading file: '
ReadErrorOpen ==
    <<"[", "E", "R", "R", "O", "R", " ", "r", "e", "a", "d", "i", "n", "g",
      " ", "f", "i", "l", "e", ":", " ">>

\* '[Errno 13] Permission denied'
PermissionDenied ==
    <<"[", "E", "r", "r", "n", "o", " ", "1", "3", "]", " ", "P", "e", "r",
      "m", "i", "s", "s", "i", "o", "n", " ", "d", "e", "n", "i", "e", "d">>

\* 'ID='
IdKey ==
    <<"I", "D", "=">>

\* 'ID_LIKE='
IdLikeKey ==
    <<"I", "D", "_", "L", "I", "K", "E", "=">>

\* 'ubuntu'
ubuntu ==
    <<"u", "b", "u", "n", "t", "u">>

\* 'fedora'
fedora ==
    <<"f", "e", "d", "o", "r", "a">>

\* 'centos'
centos ==
    <<"c", "e", "n", "t", "o", "s">>

\* 'amzn'
amzn ==
    <<"a", "m", "z", "n">>

\* 'NAME="Debian GNU/Linux"\n'
LineNameDebian ==
    <<"N", "A", "M", "E", "=", "\"", "D", "e", "b", "i", "a", "n", " ",
      "G", "N", "U", "/", "L", "i", "n", "u", "x", "\"", "\n">>

\* 'VERSION_ID="22.04"\n'
LineVersionId ==
    <<"V", "E", "R", "S", "I", "O", "N", "_", "I", "D", "=", "\"", "2",
      "2", ".", "0", "4", "\"", "\n">>

\* 'ID=ubuntu\n'
LineIdUbuntu ==
    <<"I", "D", "=", "u", "b", "u", "n", "t", "u", "\n">>

\* 'ID_LIKE=debian\n'
LineIdLikeDebian ==
    <<"I", "D", "_", "L", "I", "K", "E", "=", "d", "e", "b", "i", "a", "n",
      "\n">>

\* 'ID="amzn"\n'
LineIdAmzn ==
    <<"I", "D", "=", "\"", "a", "m", "z", "n", "\"", "\n">>

\* 'ID_LIKE="centos rhel fedora"\n'
LineIdLikeRhel ==
    <<"I", "D", "_", "L", "I", "K", "E", "=", "\"", "c", "e", "n", "t",
      "o", "s", " ", "r", "h", "e", "l", " ", "f", "e", "d", "o", "r", "a",
      "\"", "\n">>

\* 'ID="Fedora"\n'
LineIdFedora ==
    <<"I", "D", "=", "\"", "F", "e", "d", "o", "r", "a", "\"", "\n">>

\* 'ID=alpine\n'
LineIdAlpine ==
    <<"I", "D", "=", "a", "l", "p", "i", "n", "e", "\n">>

\* 'ID_LIKE="rhel debian"\n'
LineIdLikeMixed ==
    <<"I", "D", "_", "L", "I", "K", "E", "=", "\"", "r", "h", "e", "l",
      " ", "d", "e", "b", "i", "a", "n", "\"", "\n">>

---------------------------------------------------------------------------
(* Python str and re primitives used by the two programs.                  *)

Range(f) == {f[k] : k \in DOMAIN f}

Min(S) == CHOOSE m \in S : \A n \in S : m <= n

Max(S) == CHOOSE m \in S : \A n \in S : m >= n

Digits == <<"0", "1", "2", "3", "4", "5", "6", "7", "8", "9">>

UpperAlpha ==
    <<"A", "B", "C", "D", "E", "F", "G", "H", "I", "J", "K", "L", "M",
      "N", "O", "P", "Q", "R", "S", "T", "U", "V", "W", "X", "Y", "Z">>

LowerAlpha ==
    <<"a", "b", "c", "d", "e", "f", "g", "h", "i", "j", "k", "l", "m",
      "n", "o", "p", "q", "r", "s", "t", "u", "v", "w", "x", "y", "z">>

\* re's \w: letters, digits and the underscore.
WordChars == Range(Digits) \cup Range(UpperAlpha) \cup Range(LowerAlpha) \cup {"_"}

\* re's \s and the characters str.strip() removes.
WhiteSpace == {" ", "\t", "\n", "\r", "\f"}

\* The characters str.splitlines() breaks a line at ("\r\n" counts once).
LineBreaks == {"\n", "\r", "\f"}

\* str.lower() of the upper-case letters.
LowerOf ==
    [c \in Range(UpperAlpha) |->
        LowerAlpha[CHOOSE k \in DOMAIN UpperAlpha : UpperAlpha[k] = c]]

\* What re.I compares: the lower-case form of one character.
LowerChar(c) == IF c \in DOMAIN LowerOf THEN LowerOf[c] ELSE c

LowerStr(s) == [k \in 1..Len(s) |-> LowerChar(s[k])]

\* str(n) / f"{n}" of an int.
RECURSIVE IntStr(_)
IntStr(n) ==
    IF n < 0 THEN <<"-">> \o IntStr(0 - n)
    ELSE IF n < 10 THEN <<Digits[n + 1]>>
    ELSE IntStr(n \div 10) \o <<Digits[(n % 10) + 1]>>

\* ' '.join(words)
RECURSIVE JoinSpace(_)
JoinSpace(words) ==
    IF words = <<>> THEN <<>>
    ELSE IF Len(words) = 1 THEN words[1]
    ELSE words[1] \o <<" ">> \o JoinSpace(Tail(words))

\* s.startswith(prefix)
StartsWith(s, prefix) ==
    Len(s) >= Len(prefix) /\ SubSeq(s, 1, Len(prefix)) = prefix

\* sub in s
Contains(s, sub) ==
    \E p \in 1..(Len(s) - Len(sub) + 1) : SubSeq(s, p, p + Len(sub) - 1) = sub

\* The first position at or after p of s that holds no whitespace
\* (Len(s) + 1 when there is none).
RECURSIVE SkipSpace(_, _)
SkipSpace(s, p) ==
    IF p > Len(s) \/ s[p] \notin WhiteSpace THEN p ELSE SkipSpace(s, p + 1)

\* The last position at or before p of s that holds no whitespace
\* (0 when there is none).
RECURSIVE SkipSpaceBack(_, _)
SkipSpaceBack(s, p) ==
    IF p < 1 \/ s[p] \notin WhiteSpace THEN p ELSE SkipSpaceBack(s, p - 1)

\* s.strip()
Strip(s) == SubSeq(s, SkipSpace(s, 1), SkipSpaceBack(s, Len(s)))

\* s.splitlines() from position `from` on, brk the line breaks not yet passed.
RECURSIVE SplitFrom(_, _, _)
SplitFrom(s, from, brk) ==
    IF from > Len(s) THEN <<>>
    ELSE IF brk = {} THEN <<SubSeq(s, from, Len(s))>>
    ELSE LET p == Min(brk)
             q == IF s[p] = "\r" /\ p < Len(s) /\ s[p + 1] = "\n"
                  THEN p + 1 ELSE p
         IN  <<SubSeq(s, from, p - 1)>> \o SplitFrom(s, q + 1, {b \in brk : b > q})

\* s.splitlines()
SplitLines(s) == SplitFrom(s, 1, {p \in 1..Len(s) : s[p] \in LineBreaks})

\* re's \b at position p of s: between s[p-1] and s[p], one a word
\* character and the other not (the ends of s count as not).
WordBoundary(s, p) ==
    LET before == p > 1 /\ s[p - 1] \in WordChars
        after  == p <= Len(s) /\ s[p] \in WordChars
    IN  before # after


---------------------------------------------------------------------------
(* updater.py: _detect_os.                                                 *)

\* The markers of line 47 and of line 49.
DebianMarkers == {debian, ubuntu}
RhelMarkers == {rhel, fedora, centos, amzn}

\* s.strip('"'): the first and the last position that hold no double quote.
RECURSIVE SkipQuote(_, _)
SkipQuote(s, p) ==
    IF p > Len(s) \/ s[p] # "\"" THEN p ELSE SkipQuote(s, p + 1)

RECURSIVE SkipQuoteBack(_, _)
SkipQuoteBack(s, p) ==
    IF p < 1 \/ s[p] # "\"" THEN p ELSE SkipQuoteBack(s, p - 1)

StripQuotes(s) == SubSeq(s, SkipQuote(s, 1), SkipQuoteBack(s, Len(s)))

\* line.split("=", 1)[1] of a line that holds a "=": what follows the
\* first one.
AfterEquals(line) ==
    LET p == Min({k \in 1..Len(line) : line[k] = "="})
    IN  SubSeq(line, p + 1, Len(line))

\* Lines 44-50: the lines are read in order; the first ID= or ID_LIKE=
\* line whose value holds a marker decides, a Debian marker before an
\* RHEL one.  <<>> when the loop ends without a return.
RECURSIVE DetectFrom(_)
DetectFrom(lines) ==
    IF lines = <<>> THEN <<>>
    ELSE LET line == Head(lines)
             val  == LowerStr(StripQuotes(AfterEquals(line)))
         IN  IF StartsWith(line, IdLikeKey) \/ StartsWith(line, IdKey)
             THEN IF \E x \in DebianMarkers : Contains(val, x) THEN debian
                  ELSE IF \E x \in RhelMarkers : Contains(val, x) THEN rhel
                  ELSE DetectFrom(Tail(lines))
             ELSE DetectFrom(Tail(lines))

\* A detector without the look at /usr/bin/apt-get.
_detect_os_without_fallback(release, apt) ==
    LET found == IF release # <<>> THEN DetectFrom(SplitLines(release[1]))
                 ELSE <<>>
    IN  IF found # <<>> THEN found ELSE rhel

\* _detect_os(), with /etc/os-release and the presence of
\* /usr/bin/apt-get as it finds them.
_detect_os(release, apt) ==
    LET found == IF release # <<>> THEN DetectFrom(SplitLines(release[1]))
                 ELSE <<>>
    IN  IF found # <<>> THEN found
        ELSE IF apt THEN debian
        ELSE rhel

\* run_updates, line 118: os_family = _detect_os()
DetectOS ==
    /\ pc = "detect"
    /\ os_family' = _detect_os(os_release, apt_get_exists)
    /\ pc' = "start"
    /\ UNCHANGED <<cfg, dry_run, step, calls, children, returncodes, stdouts,
                   rcs, exit_code, fh, status, raised, proc_exit, clock,
                   parsed>>
    /\ UNCHANGED others
---------------------------------------------------------------------------
(* updater.py                                                               *)

\* Characters in each separator line: SEP = "=" * 70, STAR = "*" * 70.
SepWidth == 70

SEP == [k \in 1..SepWidth |-> "="]

STAR == [k \in 1..SepWidth |-> "*"]

NL == <<"\n">>

\* timeout=1800 of subprocess.run, in seconds.
StepTimeout == 1800

\* The longest a child that ends by itself runs in the model, in seconds.
MaxSeconds == 1

\* %H, %M, %S: a number below 100 in two digits.
TwoDigits(n) == <<Digits[(n \div 10) + 1], Digits[(n % 10) + 1]>>

\* datetime.now().strftime('%Y-%m-%d %H:%M:%S'), t seconds after the run
\* was started (by cron, at 03:00:00 of the model's day).
strftime(t) ==
    DatePrefix \o TwoDigits((3 + (t \div 3600)) % 24) \o <<":">>
    \o TwoDigits((t \div 60) % 60) \o <<":">> \o TwoDigits(t % 60)

\* _get_commands(os_family): the (label, command) pairs, in order.
_get_commands(family) ==
    IF family = debian
    THEN << [label |-> DebianLabel1, cmd |-> <<apt_get, update>>],
            [label |-> DebianLabel2, cmd |-> <<unattended_upgrade, dash_d>>] >>
    ELSE << [label |-> RhelLabel1, cmd |-> <<yum, check_update, dash_security>>],
            [label |-> RhelLabel2, cmd |-> <<yum, update, dash_security, dash_y>>] >>

\* The exit codes a child may end with: success, the general failure, the
\* 100 of "yum check-update" (updates available) and of an apt-get error.
ReturnCodes == {0, 1, 100}

\* What a child may have printed (stdout and stderr together): nothing, a
\* progress line, a fetch warning (apt-get prints it and still exits 0), a
\* package status line.
Stdouts == {<<>>, OutQuiet, OutFetchWarning, OutDpkgStatus}

\* A child that ends by itself after `seconds`, with its exit code and output.
Finishes ==
    [started : {TRUE}, returncode : ReturnCodes, stdout : Stdouts,
     seconds : 0..MaxSeconds]

\* A child still running when the timeout expires.
Hangs ==
    [started : {TRUE}, returncode : {0}, stdout : {<<>>},
     seconds : {StepTimeout + 1}]

\* No child at all: the executable is missing, Popen raises OSError.
Missing ==
    [started : {FALSE}, returncode : {0}, stdout : {<<>>}, seconds : {0}]

\* subprocess.run(cmd, ..., timeout=1800): the exception it raises, if any.
subprocess_run_raises(oc) ==
    IF ~oc.started THEN "OSError"
    ELSE IF oc.seconds > StepTimeout THEN "TimeoutExpired"
    ELSE "none"

\* _run: the exception that leaves it; a dry run executes nothing.
_run_raises(dry, oc) == IF dry THEN "none" ELSE subprocess_run_raises(oc)

\* Seconds subprocess.run takes: the child is killed when the timeout expires.
Elapsed(oc) == IF oc.seconds > StepTimeout THEN StepTimeout ELSE oc.seconds

\* _run: the first write, before anything is executed.
_run_command_line(cmd) == <<"$", " ">> \o JoinSpace(cmd) \o NL

\* _run: everything it writes to log_fh when subprocess.run returns
\* (or is not called, in a dry run).
_run_writes(cmd, dry, oc) ==
    IF dry
    THEN _run_command_line(cmd) \o DryRunLine
    ELSE _run_command_line(cmd) \o oc.stdout
         \o NL \o ExitOpen \o IntStr(oc.returncode) \o <<"]", "\n", "\n">>

\* _run: "check-update" in cmd
HasCheckUpdate(cmd) == \E k \in DOMAIN cmd : cmd[k] = check_update

\* A _run without the early return of a dry run.
_run_returns_without_dry_run(cmd, dry, oc) ==
    IF cmd[1] = yum /\ HasCheckUpdate(cmd) /\ oc.returncode = 100 THEN 0
    ELSE oc.returncode

\* A _run that takes 100 for success from every yum command.
_run_returns_any_yum(cmd, dry, oc) ==
    IF dry THEN 0
    ELSE IF cmd[1] = yum /\ oc.returncode = 100 THEN 0
    ELSE oc.returncode

\* _run: the value it returns.
_run_returns(cmd, dry, oc) ==
    IF dry THEN 0
    ELSE IF cmd[1] = yum /\ HasCheckUpdate(cmd) /\ oc.returncode = 100 THEN 0
    ELSE oc.returncode

\* A run_updates whose exit_code follows the last step alone.
AggregateLastStep(code, rc) == IF rc # 0 THEN 1 ELSE 0

\* run_updates, lines 144-146: a step that did not return 0 sets exit_code.
Aggregate(code, rc) == IF rc # 0 THEN 1 ELSE code

\* run_updates: the header block.
Header(c, family, t) ==
    SEP \o NL \o TitleLine
    \o ServerKey \o c.server_name \o NL
    \o EnvironmentKey \o c.environment \o NL
    \o OSFamilyKey \o family \o NL
    \o StartedKey \o strftime(t) \o NL
    \o SEP \o NL \o NL

\* run_updates: the banner above each step.
Banner(label) == STAR \o NL \o label \o NL \o STAR \o NL \o NL

\* A run_updates that tests exit_code for truth the wrong way round.
StatusOfInverted(code) == IF code # 0 THEN SUCCESS ELSE COMPLETED_WITH_ERRORS

\* run_updates: status
StatusOf(code) == IF code = 0 THEN SUCCESS ELSE COMPLETED_WITH_ERRORS

\* A footer without its finish line.
FooterWithoutFinished(st, t) ==
    NL \o SEP \o NL \o StatusKey \o st \o NL \o SEP \o NL

\* run_updates: the footer block.
Footer(st, t) ==
    NL \o SEP \o NL \o StatusKey \o st \o NL
    \o FinishedKey \o strftime(t) \o NL \o SEP \o NL

\* The configurations of the model: SERVER_NAME and ENVIRONMENT are free
\* text of config.env; the Telegram credentials are empty by default.
ServerNames == {DefaultServer, FailSafeServer}

Environments == {Production, Staging}

Secrets == {<<>>, <<"s", "3", "c", "r", "3", "t">>}

\* load_config: the fields of Config the two programs read.
load_config ==
    [server_name : ServerNames, environment : Environments,
     telegram_bot_token : Secrets, telegram_chat_id : Secrets]

steps == _get_commands(os_family)

\* run_updates, lines 120-136: the log file is opened and the header
\* written.
OpenLog ==
    /\ pc = "start"
    /\ exit_code' = 0
    /\ fh' = Header(cfg, os_family, clock)
    /\ pc' = "steps"
    /\ UNCHANGED <<cfg, dry_run, os_family, step, calls, children,
                   returncodes, stdouts, rcs, status, raised, proc_exit,
                   clock, parsed>>
    /\ UNCHANGED others

\* One iteration of the for loop in which _run returns: the banner, _run's
\* writes, and the update of exit_code.
RunStep(oc) ==
    /\ pc = "steps"
    /\ step <= Len(steps)
    /\ _run_raises(dry_run, oc) = "none"
    /\ LET s  == steps[step]
           rc == _run_returns(s.cmd, dry_run, oc)
       IN  /\ fh' = fh \o Banner(s.label) \o _run_writes(s.cmd, dry_run, oc)
           /\ calls' = Append(calls, s.cmd)
           /\ children' = IF dry_run THEN children ELSE Append(children, s.cmd)
           /\ returncodes' =
                 IF dry_run THEN returncodes ELSE Append(returncodes, oc.returncode)
           /\ stdouts' = IF dry_run THEN stdouts ELSE Append(stdouts, oc.stdout)
           /\ rcs' = Append(rcs, rc)
           /\ exit_code' = Aggregate(exit_code, rc)
    /\ clock' = IF dry_run THEN clock ELSE clock + Elapsed(oc)
    /\ step' = step + 1
    /\ pc' = IF step = Len(steps) THEN "footer" ELSE "steps"
    /\ UNCHANGED <<cfg, dry_run, os_family, status, raised, proc_exit, parsed>>
    /\ UNCHANGED others

\* One iteration of the for loop in which subprocess.run raises: nothing
\* catches the exception, so it leaves _run, the with block (which closes
\* the file) and run_updates, and the interpreter exits with status 1.
StepRaises(oc) ==
    /\ pc = "steps"
    /\ step <= Len(steps)
    /\ _run_raises(dry_run, oc) # "none"
    /\ LET s == steps[step]
       IN  /\ fh' = fh \o Banner(s.label) \o _run_command_line(s.cmd)
           /\ calls' = Append(calls, s.cmd)
           /\ children' = IF oc.started THEN Append(children, s.cmd) ELSE children
    /\ raised' = _run_raises(dry_run, oc)
    /\ clock' = clock + Elapsed(oc)
    /\ proc_exit' = <<1>>
    /\ pc' = "crashed"
    /\ UNCHANGED <<cfg, dry_run, os_family, step, returncodes, stdouts, rcs,
                   exit_code, status, parsed>>
    /\ UNCHANGED others

\* run_updates, lines 148-153: the footer.
WriteFooter ==
    /\ pc = "footer"
    /\ status' = StatusOf(exit_code)
    /\ fh' = fh \o Footer(StatusOf(exit_code), clock)
    /\ pc' = "return"
    /\ UNCHANGED <<cfg, dry_run, os_family, step, calls, children,
                   returncodes, stdouts, rcs, exit_code, raised, proc_exit,
                   clock, parsed>>
    /\ UNCHANGED others

\* run_updates returns exit_code and main hands it to sys.exit.
Return ==
    /\ pc = "return"
    /\ proc_exit' = <<exit_code>>
    /\ pc' = "done"
    /\ UNCHANGED <<cfg, dry_run, os_family, step, calls, children,
                   returncodes, stdouts, rcs, exit_code, fh, status, raised,
                   clock, parsed>>
    /\ UNCHANGED others

---------------------------------------------------------------------------
(* report.py: _parse_log                                                    *)

\* error_lines[:10]
MaxErrors == 10

\* The last position a greedy .+ starting at p reaches: "." matches
\* everything but "\n".
RECURSIVE LineEnd(_, _)
LineEnd(s, p) ==
    IF p > Len(s) \/ s[p] = "\n" THEN p - 1 ELSE LineEnd(s, p + 1)

\* Where group 1 of  <label>\s*:\s*(.+)  starts when the pattern is matched
\* at position p of s, or 0 when it does not match there.  The greedy \s*
\* after the colon runs to the next non-whitespace character; when the text
\* ends first, the matcher backs off to the last character that "." accepts.
GroupStart(label, s, p) ==
    IF ~(/\ s[p] = label[1]
         /\ p + Len(label) - 1 <= Len(s)
         /\ SubSeq(s, p, p + Len(label) - 1) = label)
    THEN 0
    ELSE LET c == SkipSpace(s, p + Len(label))
         IN  IF ~(c <= Len(s) /\ s[c] = ":") THEN 0
             ELSE LET r == SkipSpace(s, c + 1)
                      back == {k \in (c + 1)..Len(s) : s[k] # "\n"}
                  IN  IF r <= Len(s) THEN r
                      ELSE IF back = {} THEN 0
                      ELSE Max(back)

\* m = re.search(label + r"\s*:\s*(.+)", content): the leftmost match;
\* m.group(1).strip() when there is one, else the default.
SearchField(label, s, default) ==
    LET hits == {p \in 1..Len(s) : GroupStart(label, s, p) > 0}
    IN  IF hits = {} THEN default
        ELSE LET k == GroupStart(label, s, Min(hits))
             IN  Strip(SubSeq(s, k, LineEnd(s, k)))

\* The alternatives of r"\b(error|failed|fail)\b".
ErrorWords == {w_error, w_failed, w_fail}

\* re.search(r"\b(error|failed|fail)\b", ln, re.I)
ErrorRe(ln) ==
    \E p \in 1..Len(ln) : \E w \in ErrorWords :
        /\ WordBoundary(ln, p)
        /\ p + Len(w) - 1 <= Len(ln)
        /\ WordBoundary(ln, p + Len(w))
        /\ LowerStr(SubSeq(ln, p, p + Len(w) - 1)) = w

\* The condition of the list comprehension that builds error_lines.
IsErrorLine(ln) ==
    /\ ErrorRe(ln)
    /\ ~StartsWith(Strip(ln), GetPrefix)
    /\ Strip(ln) # <<>>

\* error_lines: the stripped lines of content that pass the condition,
\* in the order of content.splitlines().
RECURSIVE ErrorLines(_)
ErrorLines(lines) ==
    IF lines = <<>> THEN <<>>
    ELSE IF IsErrorLine(Head(lines))
         THEN <<Strip(Head(lines))>> \o ErrorLines(Tail(lines))
         ELSE ErrorLines(Tail(lines))

\* A parser that keeps every error line.
AllErrors(error_lines) == error_lines

\* error_lines[:10]
FirstErrors(error_lines) ==
    SubSeq(error_lines, 1, IF Len(error_lines) < MaxErrors
                           THEN Len(error_lines) ELSE MaxErrors)

\* _parse_log(content), without the "packages" list.
_parse_log(text) ==
    [started  |-> SearchField(StartedLabel, text, NA),
     finished |-> SearchField(FinishedLabel, text, NA),
     status   |-> SearchField(StatusLabel, text, Unknown),
     errors   |-> FirstErrors(ErrorLines(SplitLines(text)))]

---------------------------------------------------------------------------
(* _parse_log on log texts of any content (specification ParseSpec).       *)

\* Lines of the texts: two that qualify as error lines, two "Get:" progress
\* lines with an error word (one of them indented), one with "failures"
\* (no whole word), and the bare word.
LinePool ==
    {LineFailed, LineError, LineGet, LineGetIndented, LineFailures, LineFail}

\* The longest block of lines a text repeats.
MaxBlock == 3

\* How often a text repeats its block, at most.
MaxRepeat == 8

\* The blocks: up to MaxBlock lines of the pool, in any order.
RECURSIVE Blocks(_)
Blocks(n) ==
    IF n = 0 THEN {<<>>}
    ELSE Blocks(n - 1) \cup {b \o ln : b \in Blocks(n - 1), ln \in LinePool}

\* block repeated n times.
RECURSIVE Repeat(_, _)
Repeat(block, n) == IF n = 0 THEN <<>> ELSE block \o Repeat(block, n - 1)

\* The log texts of the model.
LogTexts == {Repeat(b, n) : b \in Blocks(MaxBlock), n \in 1..MaxRepeat}

---------------------------------------------------------------------------
(* report.py: collect_logs, build_pdf, send_to_telegram,                   *)
(* generate_monthly_report and main.                                       *)

\* The characters of the log file names, in code point order: what
\* sorted() compares by.
CodePointOrder ==
    <<"-", ".">> \o Digits \o <<"_">> \o LowerAlpha

CodePoint(c) == CHOOSE k \in DOMAIN CodePointOrder : CodePointOrder[k] = c

\* a < b for two str.
RECURSIVE StrLess(_, _)
StrLess(a, b) ==
    IF b = <<>> THEN FALSE
    ELSE IF a = <<>> THEN TRUE
    ELSE IF Head(a) = Head(b) THEN StrLess(Tail(a), Tail(b))
    ELSE CodePoint(Head(a)) < CodePoint(Head(b))

\* f"security-update_{year}{month:02d}*.log", without the directory.
Pattern(year, month) ==
    [prefix |-> LogPrefix \o IntStr(year)
                \o (IF month < 10 THEN <<"0">> ELSE <<>>) \o IntStr(month),
     suffix |-> LogSuffix]

\* glob: the name matches  <prefix>*<suffix>.
Matches(name, pat) ==
    /\ Len(name) >= Len(pat.prefix) + Len(pat.suffix)
    /\ StartsWith(name, pat.prefix)
    /\ SubSeq(name, Len(name) - Len(pat.suffix) + 1, Len(name)) = pat.suffix

\* sorted(names)
RECURSIVE Sorted(_)
Sorted(names) ==
    IF names = {} THEN <<>>
    ELSE LET first == CHOOSE n \in names : \A m \in names \ {n} : StrLess(n, m)
         IN  <<first>> \o Sorted(names \ {first})

\* The file of directory dir with the given name.
FileNamed(dir, name) == CHOOSE f \in dir : f.name = name

\* collect_logs, lines 102-107: the entry of one path; a file that cannot
\* be read gives the placeholder with the OSError's text.
EntryOf(f) ==
    IF f.readable THEN <<f.name, f.text>>
    ELSE <<f.name, ReadErrorOpen \o PermissionDenied \o <<"]">> >>

\* A collection that leaves out the files it cannot read.
collect_logs_skipping_unreadable(dir, year, month) ==
    LET paths == Sorted({f.name : f \in {g \in dir : g.readable /\ Matches(g.name, Pattern(year, month))}})
    IN  [k \in 1..Len(paths) |-> EntryOf(FileNamed(dir, paths[k]))]

\* collect_logs(log_dir, year, month)
collect_logs(dir, year, month) ==
    LET paths == Sorted({f.name : f \in {g \in dir : Matches(g.name, Pattern(year, month))}})
    IN  [k \in 1..Len(paths) |-> EntryOf(FileNamed(dir, paths[k]))]

\* build_pdf: what the document shows of the entries: the "Total Updates"
\* row and one section per entry with its file name, status, times and
\* error lines.
build_pdf(ents) ==
    [total_updates |-> IntStr(Len(ents)),
     sections |-> [k \in 1..Len(ents) |->
                      [filename |-> ents[k][1], parsed |-> _parse_log(ents[k][2])]]]

\* What sending the request can come to: the API answers ok with a message
\* id, ok without one, not ok (bad token, bad chat), with a body that is
\* no JSON or no JSON object, or urlopen raises URLError or times out.
Replies ==
    {"ok", "ok without message_id", "not ok", "not JSON", "not an object",
     "URLError", "timeout"}

\* send_to_telegram, lines 358-370: every reply but the complete ok one
\* ends in "return False", through the else branch or the except clause.
Delivered(reply) == reply = "ok"

\* A check that skips only when both credentials are empty.
NotConfiguredBoth(c) == c.telegram_bot_token = <<>> /\ c.telegram_chat_id = <<>>

\* send_to_telegram, line 316
NotConfigured(c) == c.telegram_bot_token = <<>> \/ c.telegram_chat_id = <<>>

\* The reporter reads the log of the finished (or crashed) run: build_pdf
\* calls _parse_log on the file's text.
ParseWrittenLog ==
    /\ pc \in {"done", "crashed"}
    /\ parsed = <<>>
    /\ content' = fh
    /\ parsed' = <<_parse_log(fh)>>
    /\ UNCHANGED <<cfg, dry_run, os_family, pc, step, calls, children,
                   returncodes, stdouts, rcs, exit_code, fh, status, raised,
                   proc_exit, clock>>
    /\ UNCHANGED <<log_dir, period, r_pc, entries, report_file, events,
                   doc_reads, net_calls, sent, r_raised, r_exit, host>>

\* The updater's variables before run_updates is called.
UpdaterIdle ==
    /\ os_release = <<>>
    /\ apt_get_exists = TRUE
    /\ dry_run = FALSE
    /\ os_family = debian
    /\ pc = "idle"
    /\ step = 1
    /\ calls = <<>>
    /\ children = <<>>
    /\ returncodes = <<>>
    /\ stdouts = <<>>
    /\ rcs = <<>>
    /\ exit_code = 0
    /\ fh = <<>>
    /\ status = <<>>
    /\ raised = "none"
    /\ proc_exit = <<>>
    /\ clock = 0

\* The reporter's variables before generate_monthly_report is called.
ReportIdle ==
    /\ log_dir = {}
    /\ period = [year |-> 2026, month |-> 2]
    /\ r_pc = "idle"
    /\ entries = <<>>
    /\ report_file = <<>>
    /\ events = <<>>
    /\ doc_reads = 0
    /\ net_calls = 0
    /\ sent = <<>>
    /\ r_raised = "none"
    /\ r_exit = <<>>

\* The hosts of the runs: an Ubuntu server and an Amazon Linux instance.
Hosts ==
    {[os_release |-> <<LineNameDebian \o LineIdUbuntu \o LineIdLikeDebian>>,
      apt_get_exists |-> TRUE],
     [os_release |-> <<LineIdAmzn \o LineIdLikeRhel \o LineVersionId>>,
      apt_get_exists |-> FALSE]}

\* updater.py is started: main has read --dry-run and run_updates has
\* loaded the configuration.
Init ==
    /\ \E h \in Hosts : os_release = h.os_release /\ apt_get_exists = h.apt_get_exists
    /\ cfg \in {c \in load_config :
                  c.telegram_bot_token = <<>> /\ c.telegram_chat_id = <<>>}
    /\ dry_run \in BOOLEAN
    /\ os_family = <<>>
    /\ pc = "detect"
    /\ step = 1
    /\ calls = <<>>
    /\ children = <<>>
    /\ returncodes = <<>>
    /\ stdouts = <<>>
    /\ rcs = <<>>
    /\ exit_code = 0
    /\ fh = <<>>
    /\ status = <<>>
    /\ raised = "none"
    /\ proc_exit = <<>>
    /\ clock = 0
    /\ parsed = <<>>
    /\ content = <<>>
    /\ ReportIdle

Next ==
    \/ DetectOS
    \/ OpenLog
    \/ \E oc \in Finishes \cup Hangs \cup Missing : RunStep(oc)
    \/ \E oc \in Finishes \cup Hangs \cup Missing : StepRaises(oc)
    \/ WriteFooter
    \/ Return
    \/ ParseWrittenLog

Spec == Init /\ [][Next]_vars

\* build_pdf, line 216: parsed = _parse_log(content)
ParseContent ==
    /\ pc = "idle"
    /\ r_pc = "idle"
    /\ parsed = <<>>
    /\ parsed' = <<_parse_log(content)>>
    /\ UNCHANGED <<cfg, dry_run, os_family, pc, step, calls, children,
                   returncodes, stdouts, rcs, exit_code, fh, status, raised,
                   proc_exit, clock>>
    /\ UNCHANGED others

\* A log text has been read from a file of the log directory.
ParseInit ==
    /\ content \in LogTexts
    /\ parsed = <<>>
    /\ cfg = [server_name |-> DefaultServer, environment |-> Production,
              telegram_bot_token |-> <<>>, telegram_chat_id |-> <<>>]
    /\ UpdaterIdle
    /\ ReportIdle

ParseNext == ParseContent

ParseSpec == ParseInit /\ [][ParseNext]_vars

\* generate_monthly_report, lines 380-389: the logs of the period are
\* collected; without any, it returns None.
Collect ==
    /\ r_pc = "start"
    /\ entries' = collect_logs(log_dir, period.year, period.month)
    /\ events' = Append(events, "collect")
    /\ r_pc' = IF entries' = <<>> THEN "no logs" ELSE "render"
    /\ UNCHANGED <<log_dir, period, report_file, doc_reads, net_calls, sent,
                   r_raised, r_exit>>
    /\ UNCHANGED <<uvars, content, host>>

\* main, lines 410-412: no path came back, "No report generated", exit 1.
ExitWithoutReport ==
    /\ r_pc = "no logs"
    /\ r_exit' = <<1>>
    /\ r_pc' = "exit"
    /\ UNCHANGED <<log_dir, period, entries, report_file, events, doc_reads,
                   net_calls, sent, r_raised>>
    /\ UNCHANGED <<uvars, content, host>>

\* generate_monthly_report, line 395: build_pdf writes the document.
Render ==
    /\ r_pc = "render"
    /\ events' = Append(events, "render")
    /\ report_file' = <<build_pdf(entries)>>
    /\ r_pc' = "notify"
    /\ UNCHANGED <<log_dir, period, entries, doc_reads, net_calls, sent,
                   r_raised, r_exit>>
    /\ UNCHANGED <<uvars, content, host>>

\* build_pdf raises (the report directory cannot be made or written): the
\* error leaves generate_monthly_report and main, the interpreter exits 1.
RenderFails ==
    /\ r_pc = "render"
    /\ events' = Append(events, "render")
    /\ r_raised' = "OSError"
    /\ r_exit' = <<1>>
    /\ r_pc' = "crashed"
    /\ UNCHANGED <<log_dir, period, entries, report_file, doc_reads,
                   net_calls, sent>>
    /\ UNCHANGED <<uvars, content, host>>

\* send_to_telegram, lines 316-318: not configured, return False.
NotifySkipped ==
    /\ r_pc = "notify"
    /\ NotConfigured(cfg)
    /\ events' = Append(events, "notify")
    /\ sent' = <<FALSE>>
    /\ r_pc' = "return"
    /\ UNCHANGED <<log_dir, period, entries, report_file, doc_reads,
                   net_calls, r_raised, r_exit>>
    /\ UNCHANGED <<uvars, content, host>>

\* send_to_telegram, lines 333-334: open(pdf_path, "rb") raises OSError
\* (the document was removed or cannot be read).  The call is outside the
\* try block: the error leaves send_to_telegram, generate_monthly_report
\* and main, and the interpreter exits 1.
NotifyCannotReadDocument ==
    /\ r_pc = "notify"
    /\ ~NotConfigured(cfg)
    /\ events' = Append(events, "notify")
    /\ doc_reads' = doc_reads + 1
    /\ r_raised' = "OSError"
    /\ r_exit' = <<1>>
    /\ r_pc' = "crashed"
    /\ UNCHANGED <<log_dir, period, entries, report_file, net_calls, sent>>
    /\ UNCHANGED <<uvars, content, host>>

\* send_to_telegram, lines 320-370: the document is read, the request
\* built and sent; whatever comes of it, a boolean is returned.
NotifySends(reply) ==
    /\ r_pc = "notify"
    /\ ~NotConfigured(cfg)
    /\ events' = Append(events, "notify")
    /\ doc_reads' = doc_reads + 1
    /\ net_calls' = net_calls + 1
    /\ sent' = <<Delivered(reply)>>
    /\ r_pc' = "return"
    /\ UNCHANGED <<log_dir, period, entries, report_file, r_raised, r_exit>>
    /\ UNCHANGED <<uvars, content, host>>

\* generate_monthly_report returns pdf_path; main, lines 407-409: "Report
\* generated", exit 0.
ExitWithReport ==
    /\ r_pc = "return"
    /\ r_exit' = <<0>>
    /\ r_pc' = "exit"
    /\ UNCHANGED <<log_dir, period, entries, report_file, events, doc_reads,
                   net_calls, sent, r_raised>>
    /\ UNCHANGED <<uvars, content, host>>

\* The log files a directory may hold: logs the updater wrote in February
\* and in March, a log without a time stamp and a rotated copy.
LogFiles ==
    [name : {LogFeb01, LogFeb15, LogMar01, LogFebBare, LogFebRotated}, text : {OutQuiet, LineFailed},
     readable : BOOLEAN]

\* The directories: no two files of the same name.
Directories ==
    {d \in SUBSET LogFiles : \A f \in d : \A g \in d : f.name = g.name => f = g}

\* report.py is started with a year and a month: the configuration is
\* loaded, cfg.log_dir holds some log files.
ReportInit ==
    /\ cfg \in {c \in load_config :
                  c.server_name = DefaultServer /\ c.environment = Production}
    /\ log_dir \in Directories
    /\ period \in [year : {2026}, month : {2, 3}]
    /\ r_pc = "start"
    /\ entries = <<>>
    /\ report_file = <<>>
    /\ events = <<>>
    /\ doc_reads = 0
    /\ net_calls = 0
    /\ sent = <<>>
    /\ r_raised = "none"
    /\ r_exit = <<>>
    /\ parsed = <<>>
    /\ content = <<>>
    /\ UpdaterIdle

ReportNext ==
    \/ Collect
    \/ ExitWithoutReport
    \/ Render
    \/ RenderFails
    \/ NotifySkipped
    \/ NotifyCannotReadDocument
    \/ \E reply \in Replies : NotifySends(reply)
    \/ ExitWithReport

ReportSpec == ReportInit /\ [][ReportNext]_vars


\* The lines an os-release file is made of.
ReleaseLines ==
    {LineNameDebian, LineVersionId, LineIdUbuntu, LineIdLikeDebian,
     LineIdAmzn, LineIdLikeRhel, LineIdFedora, LineIdAlpine, LineIdLikeMixed}

\* The most lines of an os-release file.
MaxLines == 3

\* The os-release files of up to n lines.
RECURSIVE ReleaseFiles(_)
ReleaseFiles(n) ==
    IF n = 0 THEN {<<>>}
    ELSE ReleaseFiles(n - 1)
         \cup {f \o ln : f \in ReleaseFiles(n - 1), ln \in ReleaseLines}

\* run_updates is about to call _detect_os on a host with or without
\* /etc/os-release and with or without /usr/bin/apt-get.
DetectInit ==
    /\ os_release \in {<<>>} \cup {<<f>> : f \in ReleaseFiles(MaxLines)}
    /\ apt_get_exists \in BOOLEAN
    /\ cfg = [server_name |-> DefaultServer, environment |-> Production,
              telegram_bot_token |-> <<>>, telegram_chat_id |-> <<>>]
    /\ dry_run = FALSE
    /\ os_family = <<>>
    /\ pc = "detect"
    /\ step = 1
    /\ calls = <<>>
    /\ children = <<>>
    /\ returncodes = <<>>
    /\ stdouts = <<>>
    /\ rcs = <<>>
    /\ exit_code = 0
    /\ fh = <<>>
    /\ status = <<>>
    /\ raised = "none"
    /\ proc_exit = <<>>
    /\ clock = 0
    /\ parsed = <<>>
    /\ content = <<>>
    /\ ReportIdle

DetectNext == DetectOS

DetectSpec == DetectInit /\ [][DetectNext]_vars
---------------------------------------------------------------------------
(* Properties of the updater (specification Spec).                         *)

\* The footer has been written and run_updates has returned.
Completed == pc = "done"

\* Every step's _run returned 0.
AllStepsZero == \A k \in DOMAIN rcs : rcs[k] = 0

\* The "yum check-update" command of family B.
YumCheckUpdate == _get_commands(rhel)[1].cmd

\* C1: run_updates hands the steps to _run in list order and goes on after
\* a step that returned non-zero: the footer is only reached with every
\* step run; and the value it returns, the exit status of the process, is
\* 0 exactly when every step's _run returned 0, and 1 otherwise.
C1_AllStepsRunAndExitCodeAggregates ==
    /\ Len(calls) <= Len(steps)
    /\ \A k \in DOMAIN calls : calls[k] = steps[k].cmd
    /\ pc \in {"footer", "return", "done"} =>
          /\ Len(calls) = Len(steps)
          /\ Len(rcs) = Len(steps)
          /\ exit_code = IF AllStepsZero THEN 0 ELSE 1
    /\ Completed => proc_exit = <<IF AllStepsZero THEN 0 ELSE 1>>

\* C1 witness: the first step failed, the second was still run and
\* succeeded, and the run returned 1.
C1_Witness ==
    /\ Completed
    /\ Len(calls) = 2
    /\ rcs[1] # 0
    /\ rcs[2] = 0
    /\ proc_exit = <<1>>

\* C2, as claimed: a child that exceeds the timeout is a failure of its
\* step only; the remaining steps are run, the footer is written with
\* COMPLETED WITH ERRORS and run_updates returns 1.
C2_TimeoutIsAStepFailure ==
    (raised = "TimeoutExpired" /\ proc_exit # <<>>) =>
        /\ pc = "done"
        /\ Len(calls) = Len(steps)
        /\ status = COMPLETED_WITH_ERRORS
        /\ Contains(fh, StatusKey \o COMPLETED_WITH_ERRORS)
        /\ Contains(fh, FinishedKey)
        /\ proc_exit = <<1>>

\* C3: in a dry run no child process is started, every step's _run returns
\* 0, no exception leaves run_updates, the status is SUCCESS and the exit
\* code 0.
C3_DryRunStartsNothing ==
    dry_run =>
        /\ children = <<>>
        /\ raised = "none"
        /\ AllStepsZero
        /\ exit_code = 0
        /\ pc \in {"return", "done"} => status = SUCCESS
        /\ Completed => Len(rcs) = Len(steps) /\ proc_exit = <<0>>

\* C3 witness: a dry run that went through both steps and exited.
C3_Witness ==
    /\ dry_run
    /\ Completed
    /\ Len(calls) = 2
    /\ proc_exit = <<0>>

\* C4: for "yum check-update" a child exit code of 100 is a step result of
\* 0 and an exit code of 1 a step result of 1; for every other command,
\* and every other exit code of check-update, the step result is the
\* child's exit code unchanged.
C4_OnlyCheckUpdate100IsRemapped ==
    ~dry_run =>
        \A k \in DOMAIN returncodes :
            IF calls[k] = YumCheckUpdate /\ returncodes[k] = 100
            THEN rcs[k] = 0
            ELSE rcs[k] = returncodes[k]

\* C4 witness: in one run "yum check-update" exited 100 and counts as 0,
\* and "yum update" exited 100 and counts as 100.
C4_Witness ==
    /\ ~dry_run
    /\ Len(rcs) = 2
    /\ calls[1] = YumCheckUpdate
    /\ returncodes[1] = 100 /\ rcs[1] = 0
    /\ returncodes[2] = 100 /\ rcs[2] = 100

\* "[exit N]"
ExitMarker(n) == ExitOpen \o IntStr(n) \o <<"]">>

\* The lines of the log that are "[exit ...]" markers, in order.
MarkerLines == SelectSeq(SplitLines(fh), LAMBDA ln : StartsWith(ln, ExitOpen))

\* The dry-run placeholder lines of the log.
PlaceholderLines ==
    SelectSeq(SplitLines(fh), LAMBDA ln : ln \o <<"\n", "\n">> = DryRunLine)

\* The status the footer of a complete log shows: the footer's lines are
\* the separator, the status line, the finish line and the separator.
FooterStatus ==
    LET lines == SplitLines(fh)
        ln    == lines[Len(lines) - 2]
    IN  SubSeq(ln, Len(StatusKey) + 1, Len(ln))

\* C5, as claimed: in the log of a completed run every step has its
\* "[exit N]" marker, and the footer says SUCCESS exactly when every marker
\* is "[exit 0]", and COMPLETED WITH ERRORS otherwise.
C5_StatusFollowsExitMarkers ==
    Completed =>
        /\ Len(MarkerLines) = Len(steps)
        /\ FooterStatus = SUCCESS <=>
              \A k \in DOMAIN MarkerLines : MarkerLines[k] = ExitMarker(0)
        /\ FooterStatus \in {SUCCESS, COMPLETED_WITH_ERRORS}

\* C5, amended: in the log of a completed run that was no dry run every
\* step has its "[exit N]" marker, N the child's exit code, and the footer
\* says SUCCESS exactly when every marker is "[exit 0]" or is the
\* "[exit 100]" of yum check-update, and COMPLETED WITH ERRORS otherwise;
\* the log of a dry run has the "[DRY-RUN] command not executed" line in
\* place of each marker and says SUCCESS.
C5_StatusFollowsStepResults ==
    Completed =>
        /\ FooterStatus \in {SUCCESS, COMPLETED_WITH_ERRORS}
        /\ IF dry_run
           THEN /\ MarkerLines = <<>>
                /\ Len(PlaceholderLines) = Len(steps)
                /\ FooterStatus = SUCCESS
           ELSE /\ MarkerLines = [k \in 1..Len(steps) |-> ExitMarker(returncodes[k])]
                /\ FooterStatus = SUCCESS <=>
                      \A k \in 1..Len(steps) :
                          \/ returncodes[k] = 0
                          \/ returncodes[k] = 100 /\ calls[k] = YumCheckUpdate

\* C5 witness: a completed run whose log has the marker "[exit 100]" for
\* yum check-update and the status SUCCESS.
C5_Witness ==
    /\ Completed
    /\ ~dry_run
    /\ MarkerLines = <<ExitMarker(100), ExitMarker(0)>>
    /\ FooterStatus = SUCCESS

\* Both steps of the run were successful.
TwoSuccessfulSteps == Len(rcs) = 2 /\ rcs[1] = 0 /\ rcs[2] = 0

\* The text holds one of the words error, failed, fail, in any case, as a
\* whole word.
HasErrorWord(text) == \E k \in DOMAIN SplitLines(text) : ErrorRe(SplitLines(text)[k])

\* The text holds one of the labels Started, Finished, Status followed by
\* optional whitespace and a colon.
HasFieldLabel(text) ==
    \E label \in {StartedLabel, FinishedLabel, StatusLabel} :
        \E p \in 1..Len(text) :
            /\ p + Len(label) - 1 <= Len(text)
            /\ SubSeq(text, p, p + Len(label) - 1) = label
            /\ LET c == SkipSpace(text, p + Len(label))
               IN  c <= Len(text) /\ text[c] = ":"

\* Neither an error word nor a field label.
Plain(text) == ~HasErrorWord(text) /\ ~HasFieldLabel(text)

\* What _parse_log is claimed to return for the log of a successful run.
ParsedAsSuccess ==
    /\ Contains(parsed[1].status, SUCCESS)
    /\ parsed[1].started # NA
    /\ parsed[1].finished # NA
    /\ parsed[1].errors = <<>>

\* C6, as claimed: whatever the server name, the environment and the
\* children's output, the log of a run with two successful steps parses to
\* a status containing SUCCESS, started and finished other than "N/A" and
\* no error lines.
C6_RoundTripWhateverTheText ==
    (Completed /\ parsed # <<>> /\ TwoSuccessfulSteps) => ParsedAsSuccess

\* C6, amended: the log of a run with two successful steps parses to a
\* status containing SUCCESS, started and finished other than "N/A" and no
\* error lines, provided that the server name, the environment and the
\* children's output hold neither the whole word error, failed or fail (in
\* any case) nor one of the labels Started, Finished, Status followed by
\* optional whitespace and a colon.
C6_RoundTripOfPlainText ==
    (/\ Completed
     /\ parsed # <<>>
     /\ TwoSuccessfulSteps
     /\ Plain(cfg.server_name)
     /\ Plain(cfg.environment)
     /\ \A k \in DOMAIN stdouts : Plain(stdouts[k]))
    => ParsedAsSuccess

\* C6 witness: the log of a real (not dry) run with two successful steps
\* and plain text, one of them with output, has been parsed as a success.
C6_Witness ==
    /\ Completed
    /\ parsed # <<>>
    /\ ~dry_run
    /\ TwoSuccessfulSteps
    /\ Plain(cfg.server_name)
    /\ Plain(cfg.environment)
    /\ stdouts[1] = OutQuiet
    /\ Plain(stdouts[2])
    /\ ParsedAsSuccess
    /\ parsed[1].status = SUCCESS

---------------------------------------------------------------------------
(* Properties of _parse_log (specification ParseSpec).                     *)

\* The last position of the run of word characters that starts at a.
RECURSIVE RunEnd(_, _)
RunEnd(ln, a) ==
    IF a < Len(ln) /\ ln[a + 1] \in WordChars THEN RunEnd(ln, a + 1) ELSE a

\* The whole words of a line: its maximal runs of word characters.
WordsOf(ln) ==
    {SubSeq(ln, a, RunEnd(ln, a)) :
        a \in {p \in 1..Len(ln) :
                 ln[p] \in WordChars /\ (p = 1 \/ ln[p - 1] \notin WordChars)}}

\* A line qualifies when one of its whole words is error, failed or fail
\* in any case, and the line, leading whitespace removed, does not begin
\* with "Get:".
Qualifies(ln) ==
    /\ \E w \in WordsOf(ln) : LowerStr(w) \in {w_error, w_failed, w_fail}
    /\ ~StartsWith(Strip(ln), GetPrefix)

\* The qualifying lines of the parsed text, in their order.
QualifyingLines == SelectSeq(SplitLines(content), Qualifies)

\* A line qualifies, as claimed, when one of its whole words is error,
\* failed or fail in any case and the line does not begin with "Get:".
QualifiesAsWritten(ln) ==
    /\ \E w \in WordsOf(ln) : LowerStr(w) \in {w_error, w_failed, w_fail}
    /\ ~StartsWith(ln, GetPrefix)

\* C7, as claimed: the error list of _parse_log is exactly the first 10
\* (or all, if fewer) of the lines that hold error, failed or fail as a
\* whole word and do not begin with "Get:", in their order.
C7_ErrorsAreTheQualifyingLinesAsWritten ==
    parsed # <<>> =>
        LET q == SelectSeq(SplitLines(content), QualifiesAsWritten)
            n == IF Len(q) < 10 THEN Len(q) ELSE 10
        IN  /\ parsed[1].errors = SubSeq(q, 1, n)
            /\ \A k \in DOMAIN parsed[1].errors :
                  ~StartsWith(parsed[1].errors[k], GetPrefix)

\* C7, amended: the error list of _parse_log is exactly the first 10 (or
\* all, if fewer) of the qualifying lines of the text, in their order, each
\* without its leading and trailing whitespace, where a line qualifies when
\* it holds error, failed or fail as a whole word in any case and, leading
\* whitespace removed, does not begin with "Get:"; 10 or more qualifying
\* lines yield exactly 10, and no "Get:" line is in the list.
C7_ErrorsAreTheFirstTenQualifyingLines ==
    parsed # <<>> =>
        LET q == QualifyingLines
            n == IF Len(q) < 10 THEN Len(q) ELSE 10
        IN  /\ parsed[1].errors = [k \in 1..n |-> Strip(q[k])]
            /\ Len(q) >= 10 => Len(parsed[1].errors) = 10
            /\ \A k \in DOMAIN parsed[1].errors :
                  ~StartsWith(parsed[1].errors[k], GetPrefix)

\* C7 witness: a text with at least 15 qualifying lines and a "Get:" line
\* that holds "failed" has been parsed to exactly 10 error lines.
C7_Witness ==
    /\ parsed # <<>>
    /\ pc = "idle"
    /\ Len(QualifyingLines) >= 15
    /\ \E k \in DOMAIN SplitLines(content) : SplitLines(content)[k] \o NL = LineGet
    /\ Len(parsed[1].errors) = 10

---------------------------------------------------------------------------
(* Properties of the report pipeline (specification ReportSpec).           *)

\* collect_logs has returned.
Collected == r_pc \notin {"idle", "start"}

\* The process of report.py has ended.
ReportEnded == r_exit # <<>>

\* Stage a was entered, and before stage b if that was entered at all.
Before(a, b) ==
    /\ \E i \in DOMAIN events : events[i] = a
    /\ \A j \in DOMAIN events : events[j] = b =>
           \E i \in 1..(j - 1) : events[i] = a

\* C8, as claimed: without logs for the period no report file is written,
\* the notifier is not called and the CLI exits 1; with at least one log
\* the report is rendered before the notifier is called, and with the
\* report rendered the CLI exits 0.
C8_ExitCodeFollowsCollectedLogs ==
    /\ (Collected /\ entries = <<>>) =>
          /\ report_file = <<>>
          /\ \A i \in DOMAIN events : events[i] \notin {"render", "notify"}
          /\ ReportEnded => r_exit = <<1>>
    /\ (Collected /\ entries # <<>>) =>
          /\ (\E i \in DOMAIN events : events[i] = "notify") =>
                Before("render", "notify") /\ report_file # <<>>
          /\ (ReportEnded /\ report_file # <<>>) => r_exit = <<0>>

\* C9, as claimed: after a successful render, whatever becomes of the
\* notification (the document unreadable included), send_to_telegram
\* returns a boolean, no error leaves it, and the CLI exits 0.
C9_NotificationNeverFailsTheRun ==
    (report_file # <<>> /\ \E i \in DOMAIN events : events[i] = "notify") =>
        /\ r_raised = "none"
        /\ sent \in {<<TRUE>>, <<FALSE>>}
        /\ ReportEnded => r_exit = <<0>>

\* C10: with an empty bot token or an empty chat id send_to_telegram
\* returns False without opening the document and without a network call.
C10_NoCredentialsNoNetwork ==
    (cfg.telegram_bot_token = <<>> \/ cfg.telegram_chat_id = <<>>) =>
        /\ doc_reads = 0
        /\ net_calls = 0
        /\ (\E i \in DOMAIN events : events[i] = "notify") =>
              sent = <<FALSE>> /\ r_raised = "none"

\* C10 witness: send_to_telegram was called with a bot token and no chat
\* id, and returned False.
C10_Witness ==
    /\ cfg.telegram_bot_token # <<>>
    /\ cfg.telegram_chat_id = <<>>
    /\ report_file # <<>>
    /\ events = <<"collect", "render", "notify">>
    /\ sent = <<FALSE>>
    /\ doc_reads = 0
    /\ net_calls = 0


---------------------------------------------------------------------------
(* Properties of the collection and of the rendered document              *)
(* (specification ReportSpec).                                             *)

\* The file name is one the period asks for: "security-update_", the six
\* digits of year * 100 + month, anything, ".log".
OfPeriod(name) ==
    /\ Len(name) >= Len(LogPrefix) + 6 + Len(LogSuffix)
    /\ SubSeq(name, 1, Len(LogPrefix)) = LogPrefix
    /\ SubSeq(name, Len(LogPrefix) + 1, Len(LogPrefix) + 6)
           = IntStr(period.year * 100 + period.month)
    /\ SubSeq(name, Len(name) - 3, Len(name)) = <<".", "l", "o", "g">>

\* The files of log_dir the period asks for.
FilesOfPeriod == {f \in log_dir : OfPeriod(f.name)}

\* The text is the placeholder of a file that could not be read.
IsPlaceholder(text) ==
    /\ StartsWith(text, ReadErrorOpen)
    /\ Len(text) > Len(ReadErrorOpen)
    /\ text[Len(text)] = "]"

\* C11: collect_logs returns one (filename, content) entry per file of
\* the period and no other, by ascending file name; a file that cannot
\* be read keeps its entry, with the "[ERROR reading file: ...]"
\* placeholder as content, and the files after it are still read; the
\* rendered document shows the number of entries as "Total Updates" and
\* one section per entry, in the order of the entries.
C11_OneEntryPerLogInNameOrder ==
    Collected =>
        /\ Len(entries) = Cardinality(FilesOfPeriod)
        /\ \A f \in FilesOfPeriod : \E k \in DOMAIN entries :
              /\ entries[k][1] = f.name
              /\ f.readable => entries[k][2] = f.text
              /\ ~f.readable => IsPlaceholder(entries[k][2])
        /\ \A i \in DOMAIN entries : \A j \in DOMAIN entries :
              i < j => StrLess(entries[i][1], entries[j][1])
        /\ report_file # <<>> =>
              /\ report_file[1].total_updates = IntStr(Cardinality(FilesOfPeriod))
              /\ Len(report_file[1].sections) = Len(entries)
              /\ \A k \in DOMAIN entries :
                    report_file[1].sections[k].filename = entries[k][1]

\* C11 witness: the directory holds three logs of February, the second
\* of them unreadable, next to a log of March and a rotated copy; the
\* document was rendered with "Total Updates" 3 and the three sections
\* by file name, the unreadable log's section among them.
C11_Witness ==
    /\ period.month = 2
    /\ {f.name : f \in log_dir}
           = {LogFeb01, LogFeb15, LogMar01, LogFebBare, LogFebRotated}
    /\ ~FileNamed(log_dir, LogFeb01).readable
    /\ FileNamed(log_dir, LogFeb15).readable
    /\ report_file # <<>>
    /\ report_file[1].total_updates = <<"3">>
    /\ [k \in 1..3 |-> report_file[1].sections[k].filename]
           = <<LogFebBare, LogFeb01, LogFeb15>>
    /\ IsPlaceholder(entries[2][2])
    /\ entries[3][2] = FileNamed(log_dir, LogFeb15).text

---------------------------------------------------------------------------
(* Properties of the OS detection (specification DetectSpec).              *)

\* _detect_os has returned.
Detected == pc = "start" /\ os_family # <<>>

\* The lines of /etc/os-release, none when the file is absent.
ReleaseLinesRead ==
    IF os_release = <<>> THEN <<>> ELSE SplitLines(os_release[1])

\* The value of an identifier line (ID=... or ID_LIKE=...) in lower case,
\* <<>> for any other line.
IdentifierValue(line) ==
    IF Len(line) >= 8 /\ SubSeq(line, 1, 8) = <<"I", "D", "_", "L", "I", "K", "E", "=">>
    THEN LowerStr(SubSeq(line, 9, Len(line)))
    ELSE IF Len(line) >= 3 /\ SubSeq(line, 1, 3) = <<"I", "D", "=">>
    THEN LowerStr(SubSeq(line, 4, Len(line)))
    ELSE <<>>

\* The line is an identifier line with a Debian/Ubuntu marker, with an
\* RHEL/Fedora/CentOS/Amazon marker.
HasDebianMarker(line) ==
    \E x \in {debian, ubuntu} : Contains(IdentifierValue(line), x)

HasRhelMarker(line) ==
    \E x \in {rhel, fedora, centos, amzn} : Contains(IdentifierValue(line), x)

\* The positions of the lines with a marker.
MarkerLinesRead ==
    {k \in DOMAIN ReleaseLinesRead :
        HasDebianMarker(ReleaseLinesRead[k]) \/ HasRhelMarker(ReleaseLinesRead[k])}

\* What the look at the family-A binary gives.
Fallback == IF apt_get_exists THEN debian ELSE rhel

\* C12, as claimed: _detect_os returns "debian" or "rhel"; "debian" for
\* every file with a Debian/Ubuntu marker, "rhel" for every file with an
\* RHEL/Fedora/CentOS/Amazon marker, and for a file without markers or an
\* absent file "debian" if /usr/bin/apt-get exists and "rhel" otherwise.
C12_FamilyOfAnyMarker ==
    Detected =>
        /\ os_family \in {debian, rhel}
        /\ (\E k \in DOMAIN ReleaseLinesRead : HasDebianMarker(ReleaseLinesRead[k]))
              => os_family = debian
        /\ (\E k \in DOMAIN ReleaseLinesRead : HasRhelMarker(ReleaseLinesRead[k]))
              => os_family = rhel
        /\ MarkerLinesRead = {} => os_family = Fallback

\* C12, amended: _detect_os returns "debian" or "rhel"; the first
\* identifier line with a marker decides, "debian" if it holds a
\* Debian/Ubuntu marker and "rhel" if it holds only RHEL/Fedora/CentOS/
\* Amazon markers; for a file without markers or an absent file it
\* returns "debian" if /usr/bin/apt-get exists and "rhel" otherwise.
C12_FamilyOfFirstMarkerLine ==
    Detected =>
        /\ os_family \in {debian, rhel}
        /\ MarkerLinesRead # {} =>
              os_family = IF HasDebianMarker(ReleaseLinesRead[Min(MarkerLinesRead)])
                          THEN debian ELSE rhel
        /\ MarkerLinesRead = {} => os_family = Fallback

\* C12 witness: the file names Amazon Linux first and is "like" Debian
\* further down, /usr/bin/apt-get exists, and _detect_os returned "rhel".
C12_Witness ==
    /\ Detected
    /\ os_release = <<LineVersionId \o LineIdAmzn \o LineIdLikeDebian>>
    /\ apt_get_exists
    /\ os_family = rhel
=============================================================================
